---- MODULE Spec2Model ----
(***************************************************************************)
(* The Jira bot: the webhook handler, the ticket validator, the bounded    *)
(* agentic loop of processIssueAsync with its guarded tool handlers, the   *)
(* code reviewer (reviewCodeChanges), the diff formatter (getCodeDiff) and *)
(* the part of the repository host (GitHub) that the handlers talk to.     *)
(*                                                                         *)
(* Text is modelled as a sequence of words, so that the substring test     *)
(* String.includes is a search for a contiguous run of words.              *)
(***************************************************************************)
EXTENDS Integers, Sequences, FiniteSets, TLC

\* ------------------------------------------------------------------ bounds
\* tool_use blocks in one model response
MaxBlocks == 2

\* ------------------------------------------------------- program constants
\* for (let i = 0; i < 25; i++)
MaxTurns == 25

\* the lower-cased issue key followed by -implementation
branchName == "fe-1-implementation"

\* ------------------------------------------------------------ value spaces
\* a ReviewResult | null variable that holds null
Null == [null |-> TRUE]
\* a number | null variable that holds null (pull request numbers start at 1)
NullPr == 0
\* a JSON field that is missing
Undefined == "undefined"
\* no file at a path (the host answers 404)
Absent == <<>>

\* the repository's default branch and its head, as the host reports them
HostDefaultBranch == "main"
HostHeadSha == "sha0"

\* a.ts exists on the default branch, x.ts does not
Paths == {"a.ts", "x.ts"}
PathOrder == <<"a.ts", "x.ts">>

Original == <<"original">>
Plain == <<"fix">>
Sentinel == <<"//", "No", "changes", "detected">>
Contents == {Original, Plain, Sentinel}

DefaultTree == [p \in Paths |-> IF p = "a.ts" THEN Original ELSE Absent]

\* ------------------------------------------------------------------- text
\* String.prototype.includes on word sequences
Includes(text, pat) ==
    \E k \in 1..(Len(text) - Len(pat) + 1) :
        SubSeq(text, k, k + Len(pat) - 1) = pat

NoChangesPhrase == <<"No", "changes", "detected">>
NoChangesText == <<"No", "changes", "detected", "between", "branches.">>

RECURSIVE Concat(_)
Concat(ss) == IF ss = <<>> THEN <<>> ELSE Head(ss) \o Concat(Tail(ss))

\* one entry of data.files of compareCommits
FileEntry(p, old, new) ==
    [filename |-> p,
     status |-> IF old = Absent THEN "added" ELSE "modified",
     patch |-> (IF old = Absent THEN <<>> ELSE <<"-">> \o old) \o <<"+">> \o new]

\* data.files of compareCommits(base = default branch, head = tree)
CompareFiles(tree) ==
    LET changed == SelectSeq(PathOrder, LAMBDA p : tree[p] # DefaultTree[p])
    IN [k \in 1..Len(changed) |->
            FileEntry(changed[k], DefaultTree[changed[k]], tree[changed[k]])]

FormatFile(file) ==
    <<"##", "File:", file.filename, "Status:", file.status, "Changes:">>
        \o <<"diff">> \o file.patch \o <<"end-diff">>

\* the text getCodeDiff builds from data.files
getCodeDiff(files) ==
    IF Len(files) = 0
    THEN NoChangesText
    ELSE <<"#", "Code", "Changes", "Summary", "Total", "files", "changed:">>
            \o Concat([k \in 1..Len(files) |-> FormatFile(files[k])])

\* --------------------------------------------------------------- reviewer
\* what the reviewer model call can come back with
ReviewerResponses ==
    [kind : {"api_error", "no_text", "no_json", "bad_json"}]
    \cup { r \in [kind : {"json"},
                  approved : {"true", "false", Undefined},
                  has_issues : BOOLEAN,
                  issues : {<<>>, <<"critical">>}] :
             ~r.has_issues => r.issues = <<>> }

PermissiveResult ==
    [approved |-> "true", summary |-> "review failed", issues |-> <<>>]

\* the catch block answering with a rejection
reviewCodeChangesFailClosed(resp) ==
    IF resp.kind # "json" \/ ~resp.has_issues
    THEN [approved |-> "false", summary |-> "review failed", issues |-> <<>>]
    ELSE [approved |-> resp.approved, summary |-> "reviewed",
          issues |-> resp.issues]

\* reviewCodeChanges, given the response of its model call
reviewCodeChanges(resp) ==
    IF resp.kind # "json"
    THEN PermissiveResult
    ELSE IF ~resp.has_issues
    THEN PermissiveResult         \* result.issues.length throws a TypeError
    ELSE [approved |-> resp.approved, summary |-> "reviewed",
          issues |-> resp.issues]

\* JavaScript truthiness of the approved field
Truthy(v) == v = "true"

VARIABLES
    pc,               \* position of processIssueAsync
    i,                \* loop counter of the agentic loop
    remaining,        \* tool_use blocks of the current response not yet executed
    modelCalls,       \* anthropic.messages.create calls made by the loop
    defaultBranch,
    branchSha,
    filesRead,
    reviewCompleted,
    lastReviewResult,
    createdPrNumber,
    branchExists,     \* host: the working branch exists
    workTree,         \* host: tree of the working branch
    openPrs,          \* host: pull requests opened for the working branch
    jira,             \* ticket: comments posted to it
    messages,         \* the transcript from the latest assistant message on
    toolResults,      \* tool_result blocks collected for the current response
    outcome,          \* how the loop ended
    reviewLog,        \* approved field of the latest review tool result
    approvalStale,    \* a file write succeeded after the latest verdict, an
                      \* approval
    req,              \* the webhook request, until the handler takes it
    res,              \* the HTTP response of the handler
    last,             \* the tool call just executed and its result
    sessions,         \* two invocations at once: each one's own locals
    acting,           \* two invocations at once: the step just taken
    wait              \* waitForVercelDeployment: its locals and its return

vars == <<pc, i, remaining, modelCalls, defaultBranch, branchSha, filesRead,
          reviewCompleted, lastReviewResult, createdPrNumber, branchExists,
          workTree, openPrs, jira, messages, toolResults, outcome,
          reviewLog, approvalStale, req, res, last, sessions, acting,
          wait>>

session == <<defaultBranch, branchSha, filesRead, reviewCompleted,
             lastReviewResult, createdPrNumber>>
host == <<branchExists, workTree, openPrs>>
concurrent == <<sessions, acting>>

\* the ticket status transitionJiraTicket asks for
CodeReviewStatus == "11. Code Review"

NoCall == [name |-> "none", kind |-> "none"]

\* the two webhook requests served at once, and an invocation of
\* processIssueAsync before it declares its variables
Sessions == {1, 2}
NotStarted == [at |-> "idle"]
NoStep == [session |-> 0, name |-> "none", kind |-> "none"]

\* waitForVercelDeployment not called
NotWaiting == [at |-> "idle"]

\* the first message of the transcript
UserPrompt == [role |-> "user", content |-> <<>>]

\* an assistant message: of response.content, the ids of its tool_use blocks
\* (an id is the block's position among them)
Assistant(n) == [role |-> "assistant", content |-> [k \in 1..n |-> k]]

\* ---------------------------------------------------------------- webhook
\* the requests the endpoint can receive: the method, whether the
\* x-webhook-secret header carries the configured secret, the issue of the
\* payload, and whether a target repository is named (in the description or
\* by DEFAULT_REPO)
Requests ==
    [method : {"POST", "GET"},
     secret : BOOLEAN,
     issue : {"none", "unlabelled", "labelled"},
     repository : BOOLEAN]

\* the request has been taken by the handler
NoRequest ==
    [method |-> "none", secret |-> FALSE, issue |-> "none",
     repository |-> FALSE]

\* nothing sent yet
NoResponse == [status |-> 0, message |-> "none"]

\* what the validator's model call can come back with
ValidatorResponses ==
    [kind : {"api_error", "no_text", "no_json", "bad_json"}]
    \cup [kind : {"json"}, valid : {"true", "false", Undefined}]

\* the catch block answering with a rejection
validateTicketContentFailClosed(resp) ==
    IF resp.kind # "json"
    THEN [valid |-> "false", reasoning |-> "validation check failed"]
    ELSE [valid |-> resp.valid, reasoning |-> "validated"]

\* validateTicketContent, given the response of its model call
validateTicketContent(resp) ==
    IF resp.kind # "json"
    THEN [valid |-> "true", reasoning |-> "validation check failed"]
    ELSE [valid |-> resp.valid, reasoning |-> "validated"]

Init ==
    /\ pc = "received"
    /\ req \in Requests
    /\ res = NoResponse
    /\ i = 0
    /\ remaining = 0
    /\ modelCalls = 0
    /\ defaultBranch = ""
    /\ branchSha = ""
    /\ filesRead = {}
    /\ reviewCompleted = FALSE
    /\ lastReviewResult = Null
    /\ createdPrNumber = NullPr
    /\ branchExists = FALSE
    /\ workTree = DefaultTree
    /\ openPrs = 0
    /\ jira = [comments |-> 0]
    /\ messages = <<UserPrompt>>
    /\ toolResults = <<>>
    /\ outcome = "none"
    /\ reviewLog = "none"
    /\ approvalStale = FALSE
    /\ last = NoCall
    /\ sessions = [s \in Sessions |-> NotStarted]
    /\ acting = NoStep
    /\ wait = NotWaiting

\* the method check left out
MethodAllowedAny(method) == TRUE

\* req.method !== 'POST'
MethodAllowed(method) == method = "POST"

\* the label check left out
HasClaudeCodeLabelAny(issue) == TRUE

\* issue.fields?.labels?.some(label => label === 'claude-code' || ...)
HasClaudeCodeLabel(issue) == issue = "labelled"

\* the validation result ignored
ValidationFailedOff(validationResult) == FALSE

\* if (!validationResult.valid)
ValidationFailed(validationResult) == ~Truthy(validationResult.valid)

\* res.status(status).json({ message }) and the return of the handler
Reply(status, message) ==
    /\ res' = [status |-> status, message |-> message]
    /\ pc' = "responded"

\* The handler up to the call of processIssueAsync: the method check, the
\* issue and label checks, the ticket validation and the repository lookup.
Handler ==
    /\ pc = "received"
    /\ UNCHANGED concurrent
    /\ UNCHANGED wait
    /\ req' = NoRequest
    /\ UNCHANGED <<i, remaining, modelCalls, session, host, messages,
                   toolResults, reviewLog, approvalStale>>
    /\ IF ~MethodAllowed(req.method)
       THEN /\ Reply(405, "Method not allowed")
            /\ UNCHANGED <<jira, outcome, last>>
       ELSE IF req.issue = "none"
       THEN /\ Reply(200, "Ignored - no issue data")
            /\ UNCHANGED <<jira, outcome, last>>
       ELSE IF ~HasClaudeCodeLabel(req.issue)
       THEN /\ Reply(200, "Ignored - claude-code label not present")
            /\ UNCHANGED <<jira, outcome, last>>
       ELSE \E resp \in ValidatorResponses :
            LET validationResult == validateTicketContent(resp) IN
            /\ last' = [name |-> "validateTicketContent",
                        kind |-> IF Truthy(validationResult.valid)
                                 THEN "valid" ELSE "invalid",
                        response |-> resp]
            /\ IF ValidationFailed(validationResult)
               THEN /\ UNCHANGED outcome
                    /\ \/ \* the feedback comment is posted
                          /\ jira' = [jira EXCEPT !.comments = @ + 1]
                          /\ Reply(200, "Ticket validation failed")
                       \/ \* addJiraComment throws
                          /\ UNCHANGED jira
                          /\ Reply(500, "Internal server error")
               ELSE IF ~req.repository
               THEN /\ Reply(500, "Internal server error")
                    /\ UNCHANGED <<jira, outcome>>
               ELSE \* processIssueAsync is called
                    /\ pc' = "model"
                    /\ outcome' = "running"
                    /\ UNCHANGED <<jira, res>>

\* processIssueAsync has returned: whatever happened in it, its outer catch
\* lets no exception out
HandlerReturn ==
    /\ pc = "done"
    /\ UNCHANGED concurrent
    /\ UNCHANGED wait
    /\ Reply(200, "Processing completed")
    /\ UNCHANGED <<i, remaining, modelCalls, session, host, jira, messages,
                   toolResults, outcome, reviewLog, approvalStale, req, last>>

\* ------------------------------------------------------------- agent loop
\* the loop condition off by one
InLoopInclusive(k) == k <= MaxTurns

\* the loop condition i < 25
InLoop(k) == k < MaxTurns

\* One iteration head: the model call, the push of the assistant message,
\* the end_turn check and the hasToolUses check.
ModelCall ==
    /\ pc = "model"
    /\ UNCHANGED concurrent
    /\ UNCHANGED wait
    /\ last' = NoCall
    /\ UNCHANGED <<session, host, jira, reviewLog, approvalStale, req, res>>
    /\ modelCalls' = modelCalls + 1
    /\ toolResults' = <<>>
    /\ \/ \* the call throws: the exception leaves the loop through the
          \* outer catch
          /\ pc' = "done"
          /\ outcome' = "aborted"
          /\ UNCHANGED <<i, remaining, messages>>
       \/ \* stop_reason is end_turn (such a response holds no tool_use
          \* block): break
          /\ pc' = "completion"
          /\ outcome' = "completed"
          /\ messages' = <<Assistant(0)>>
          /\ UNCHANGED <<i, remaining>>
       \/ \* another stop reason, n tool_use blocks in the response
          \E n \in 0..MaxBlocks :
             /\ messages' = <<Assistant(n)>>
             /\ IF n > 0
                THEN /\ pc' = "tools"
                     /\ remaining' = n
                     /\ UNCHANGED <<i, outcome>>
                ELSE /\ i' = i + 1
                     /\ remaining' = 0
                     /\ pc' = IF InLoop(i + 1) THEN "model" ELSE "completion"
                     /\ outcome' = IF InLoop(i + 1) THEN outcome
                                   ELSE "exhausted"

\* the blocks of the response taken from its end
CurrentBlockFromEnd == messages[1].content[remaining]

\* the tool_use block being executed: the blocks of the response are
\* executed in order
CurrentBlock ==
    LET content == messages[1].content
    IN content[Len(content) - remaining + 1]

\* the catch block logging the error without pushing a result
PushResultUnlessThrown(results, id, result) ==
    IF result.kind = "thrown" THEN results
    ELSE Append(results, [tool_use_id |-> id])

\* toolResults.push, in the try block and in the catch block (a result of
\* kind thrown is the one the catch block builds, with is_error set)
PushResult(results, id, result) == Append(results, [tool_use_id |-> id])

\* messages.push({ role: 'user', content: toolResults })
PushUser(results) ==
    messages' = Append(messages, [role |-> "user", content |-> results])

\* a tool call's exception reaching the outer catch
FinishAbortOnThrow(result) ==
    /\ last' = result
    /\ UNCHANGED <<modelCalls, req, res>>
    /\ IF result.kind = "thrown"
       THEN /\ pc' = "done"
            /\ outcome' = "aborted"
            /\ UNCHANGED <<i, remaining, messages, toolResults>>
       ELSE /\ remaining' = remaining - 1
            /\ toolResults' = PushResult(toolResults, CurrentBlock, result)
            /\ IF remaining = 1
               THEN /\ i' = i + 1
                    /\ PushUser(toolResults')
                    /\ pc' = IF InLoop(i + 1) THEN "model" ELSE "completion"
                    /\ outcome' = IF InLoop(i + 1) THEN outcome
                                  ELSE "exhausted"
               ELSE UNCHANGED <<i, pc, outcome, messages>>

\* a break out of the loop as soon as the pull request is created
FinishBreakOnPr(result) ==
    /\ last' = result
    /\ remaining' = remaining - 1
    /\ toolResults' = PushResult(toolResults, CurrentBlock, result)
    /\ UNCHANGED <<modelCalls, req, res>>
    /\ IF result.name = "create_pull_request" /\ result.kind = "success"
       THEN /\ pc' = "completion"
            /\ outcome' = "completed"
            /\ UNCHANGED <<i, messages>>
       ELSE IF remaining = 1
       THEN /\ i' = i + 1
            /\ PushUser(toolResults')
            /\ pc' = IF InLoop(i + 1) THEN "model" ELSE "completion"
            /\ outcome' = IF InLoop(i + 1) THEN outcome ELSE "exhausted"
       ELSE UNCHANGED <<i, pc, outcome, messages>>

\* The end of one tool_use block: the result is pushed to toolResults; after
\* the last block of the response the results are pushed to messages and
\* the loop counter advances.
Finish(result) ==
    /\ last' = result
    /\ remaining' = remaining - 1
    /\ toolResults' = PushResult(toolResults, CurrentBlock, result)
    /\ UNCHANGED <<modelCalls, req, res>>
    /\ IF remaining = 1
       THEN /\ i' = i + 1
            /\ PushUser(toolResults')
            /\ pc' = IF InLoop(i + 1) THEN "model" ELSE "completion"
            /\ outcome' = IF InLoop(i + 1) THEN outcome ELSE "exhausted"
       ELSE UNCHANGED <<i, pc, outcome, messages>>

\* a tool result: the tool, its path argument, the kind of result, and the
\* number of requests the call sent to the repository host
Result(name, path, kind, reqs) ==
    [name |-> name, path |-> path, kind |-> kind, reqs |-> reqs]

\* ------------------------------------------------------------------- host
\* octokit.repos.getContent: the content at a ref, Absent standing for 404
\* (an empty ref is the default branch)
GetContent(path, ref) ==
    IF ref = branchName
    THEN IF branchExists THEN workTree[path] ELSE Absent
    ELSE DefaultTree[path]

\* octokit.repos.createOrUpdateFileContents on the working branch: the status
\* the host answers with (sha is Absent when the request carries none)
WriteStatus(path, sha) ==
    IF ~branchExists THEN 404
    ELSE IF workTree[path] # sha THEN 409
    ELSE 200

\* branch: the default branch in place of the working branch
WriteBranchDefault == HostDefaultBranch

\* branch: branchName, the target of the writes of update_file and create_file
WriteBranch == branchName

\* the tree of the working branch after a write of content at path that the
\* host accepted on the given branch
TreeAfterWrite(branch, path, content) ==
    IF branch = branchName THEN [workTree EXCEPT ![path] = content]
    ELSE workTree

\* the result of a call that sent its write to the host
Written(name, path, kind, reqs) ==
    [name |-> name, path |-> path, kind |-> kind, reqs |-> reqs,
     branch |-> WriteBranch]

\* octokit.pulls.create(head = working branch, base = default branch)
PullStatus ==
    IF branchExists /\ openPrs = 0 /\ workTree # DefaultTree THEN 201 ELSE 422

\* ----------------------------------------------------------------- tools
KeepAll == UNCHANGED <<session, host, jira, reviewLog, approvalStale>>

ReadFile ==
    /\ pc = "tools"
    /\ UNCHANGED concurrent
    /\ UNCHANGED wait
    /\ \E path \in Paths :
        \/ \* getContent fails with a status other than 404
           /\ KeepAll
           /\ Finish(Result("read_file", path, "thrown", 1))
        \/ LET data == GetContent(path, defaultBranch) IN
           IF data = Absent
           THEN /\ KeepAll
                /\ Finish(Result("read_file", path, "not_found", 1))
           ELSE /\ filesRead' = filesRead \cup {path}
                /\ UNCHANGED <<defaultBranch, branchSha, reviewCompleted,
                               lastReviewResult, createdPrNumber, host>>
                /\ Finish([name |-> "read_file", path |-> path,
                           kind |-> "success", reqs |-> 1,
                           content |-> data])
                /\ UNCHANGED <<jira, reviewLog, approvalStale>>

ListFiles ==
    /\ pc = "tools"
    /\ UNCHANGED concurrent
    /\ UNCHANGED wait
    /\ KeepAll
    /\ \E path \in Paths \cup {""} :
        \/ Finish(Result("list_files", path, "thrown", 1))
        \/ Finish(Result("list_files", path,
                         IF path = "" THEN "success"
                         ELSE IF DefaultTree[path] = Absent THEN "not_found"
                         ELSE "not_a_directory", 1))

SearchCode ==
    /\ pc = "tools"
    /\ UNCHANGED concurrent
    /\ UNCHANGED wait
    /\ KeepAll
    /\ \E kind \in {"success", "search_failed"} :
        Finish(Result("search_code", "", kind, 1))

GetDefaultBranch ==
    /\ pc = "tools"
    /\ UNCHANGED concurrent
    /\ UNCHANGED wait
    /\ UNCHANGED <<filesRead, reviewCompleted, lastReviewResult,
                   createdPrNumber, host, jira, reviewLog, approvalStale>>
    /\ \/ \* repos.get fails
          /\ UNCHANGED <<defaultBranch, branchSha>>
          /\ Finish(Result("get_default_branch", "", "thrown", 1))
       \/ \* repos.getBranch fails
          /\ defaultBranch' = HostDefaultBranch
          /\ UNCHANGED branchSha
          /\ Finish(Result("get_default_branch", "", "thrown", 2))
       \/ /\ defaultBranch' = HostDefaultBranch
          /\ branchSha' = HostHeadSha
          /\ Finish(Result("get_default_branch", "", "success", 2))

\* octokit.git.createRef: the status the host answers with
CreateRefStatus == IF branchExists \/ branchSha = "" THEN 422 ELSE 201

\* the catch block of createRef rethrowing every error
AlreadyExistsOff(status) == FALSE

\* if (branchError.status === 422)
AlreadyExists(status) == status = 422

CreateBranch ==
    /\ pc = "tools"
    /\ UNCHANGED concurrent
    /\ UNCHANGED wait
    /\ UNCHANGED <<session, workTree, openPrs, jira, reviewLog, approvalStale>>
    /\ \/ \* createRef fails before the host answers the request itself
          \* (transport, authentication)
          /\ UNCHANGED branchExists
          /\ Finish([name |-> "create_branch", path |-> "", kind |-> "thrown",
                     reqs |-> 1, status |-> 500])
       \/ LET status == CreateRefStatus IN
          IF status = 201
          THEN /\ branchExists' = TRUE
               /\ Finish([name |-> "create_branch", path |-> "",
                          kind |-> "success", reqs |-> 1, status |-> status])
          ELSE /\ UNCHANGED branchExists
               /\ Finish([name |-> "create_branch", path |-> "",
                          kind |-> IF AlreadyExists(status)
                                   THEN "success_already_exists"
                                   ELSE "thrown",
                          reqs |-> 1, status |-> status])

\* the read-before-update check left out
UpdateFileGuardOff(path) == TRUE

\* the read-before-update check skipped for paths the default branch lacks
UpdateFileGuardExisting(path) ==
    path \in filesRead \/ DefaultTree[path] = Absent

\* if (!filesRead.has(input.path))
UpdateFileGuard(path) == path \in filesRead

UpdateFile ==
    /\ pc = "tools"
    /\ UNCHANGED concurrent
    /\ UNCHANGED wait
    /\ UNCHANGED <<session, branchExists, openPrs, jira, reviewLog>>
    /\ \E path \in Paths :
        IF ~UpdateFileGuard(path)
        THEN /\ UNCHANGED workTree
             /\ Finish(Result("update_file", path, "must_read", 0))
        ELSE LET onBranch == GetContent(path, branchName)
                 onDefault == GetContent(path, defaultBranch)
                 fileSha == IF onBranch # Absent THEN onBranch ELSE onDefault
                 lookups == IF onBranch # Absent THEN 1 ELSE 2
                 status == WriteStatus(path, fileSha)
             IN
             \/ \* a lookup fails with a status other than 404
                \E failAt \in 1..lookups :
                  /\ UNCHANGED workTree
                  /\ Finish(Result("update_file", path, "thrown", failAt))
             \/ /\ fileSha = Absent
                /\ UNCHANGED workTree
                /\ Finish(Result("update_file", path, "not_found", 2))
             \/ \* the write fails with a status other than 404
                /\ fileSha # Absent
                /\ UNCHANGED workTree
                /\ Finish(Written("update_file", path, "thrown", lookups + 1))
             \/ \* input.content is missing: Buffer.from throws a TypeError
                /\ fileSha # Absent
                /\ UNCHANGED workTree
                /\ Finish([name |-> "update_file", path |-> path,
                           kind |-> "thrown", reqs |-> lookups,
                           cause |-> "TypeError"])
             \/ /\ fileSha # Absent
                /\ status = 404
                /\ UNCHANGED workTree
                /\ Finish(Written("update_file", path, "not_found",
                                  lookups + 1))
             \/ /\ fileSha # Absent
                /\ status = 200
                /\ \E content \in Contents :
                    /\ workTree' = TreeAfterWrite(WriteBranch, path, content)
                    /\ Finish(Written("update_file", path, "success",
                                      lookups + 1))
    /\ approvalStale' = (approvalStale
                           \/ (reviewLog = "true" /\ last'.kind = "success"))

\* the existence check looking at the default branch
FileExistsOnDefault(path) == GetContent(path, defaultBranch) # Absent

\* the existence check of create_file: getContent at the working branch
\* answers with something else than 404
FileExists(path) == GetContent(path, branchName) # Absent

CreateFile ==
    /\ pc = "tools"
    /\ UNCHANGED concurrent
    /\ UNCHANGED wait
    /\ UNCHANGED <<session, branchExists, openPrs, jira, reviewLog>>
    /\ \E path \in Paths :
        \/ \* the existence check fails with a status other than 404
           /\ UNCHANGED workTree
           /\ Finish(Result("create_file", path, "thrown", 1))
        \/ /\ FileExists(path)
           /\ UNCHANGED workTree
           /\ Finish(Result("create_file", path, "already_exists", 1))
        \/ \* the write fails: the error leaves the inner catch block
           /\ ~FileExists(path)
           /\ UNCHANGED workTree
           /\ Finish(Written("create_file", path, "thrown", 2))
        \/ \* input.content is missing: Buffer.from throws a TypeError
           /\ ~FileExists(path)
           /\ UNCHANGED workTree
           /\ Finish([name |-> "create_file", path |-> path,
                      kind |-> "thrown", reqs |-> 1, cause |-> "TypeError"])
        \/ /\ ~FileExists(path)
           /\ WriteStatus(path, Absent) = 200
           /\ \E content \in Contents :
               /\ workTree' = TreeAfterWrite(WriteBranch, path, content)
               /\ Finish(Written("create_file", path, "success", 2))
    /\ approvalStale' = (approvalStale
                           \/ (reviewLog = "true" /\ last'.kind = "success"))

\* the guard comparing the whole text with the phrase
NoChangesDetectedExact(codeDiff) == codeDiff = NoChangesPhrase

\* the guard in front of the reviewer: codeDiff.includes('No changes detected')
NoChangesDetected(codeDiff) == Includes(codeDiff, NoChangesPhrase)

\* the catch block taking the failure for an approval
ReviewFailedOpen ==
    /\ reviewCompleted' = TRUE
    /\ lastReviewResult' = PermissiveResult
    /\ reviewLog' = PermissiveResult.approved
    /\ approvalStale' = FALSE

\* the catch block setting the flag with no verdict stored
ReviewFailedCompleted ==
    /\ reviewCompleted' = TRUE
    /\ UNCHANGED <<lastReviewResult, reviewLog, approvalStale>>

\* the catch block of request_code_review: it builds the 'Review failed'
\* result and assigns nothing else
ReviewFailed ==
    UNCHANGED <<reviewCompleted, lastReviewResult, reviewLog, approvalStale>>

RequestCodeReview ==
    /\ pc = "tools"
    /\ UNCHANGED concurrent
    /\ UNCHANGED wait
    /\ UNCHANGED <<defaultBranch, branchSha, filesRead, createdPrNumber, host,
                   jira>>
    /\ IF defaultBranch = ""
       THEN /\ UNCHANGED <<reviewCompleted, lastReviewResult, reviewLog, approvalStale>>
            /\ Finish(Result("request_code_review", "", "no_branch", 0))
       ELSE \/ \* compareCommits fails and getCodeDiff rethrows
               /\ ReviewFailed
               /\ Finish(Result("request_code_review", "", "review_failed", 1))
            \/ /\ branchExists
               /\ LET codeDiff == getCodeDiff(CompareFiles(workTree)) IN
                  IF NoChangesDetected(codeDiff)
                  THEN /\ UNCHANGED <<reviewCompleted, lastReviewResult,
                                      reviewLog, approvalStale>>
                       /\ Finish(Result("request_code_review", "",
                                        "no_changes", 1))
                  ELSE \E resp \in ReviewerResponses :
                       LET reviewResult == reviewCodeChanges(resp) IN
                       /\ lastReviewResult' = reviewResult
                       /\ reviewCompleted' = TRUE
                       /\ reviewLog' = reviewResult.approved
                       /\ approvalStale' = FALSE
                       /\ Finish([name |-> "request_code_review",
                                  path |-> "", kind |-> "success",
                                  reqs |-> 1, response |-> resp,
                                  approved |-> reviewResult.approved,
                                  status |-> IF Truthy(reviewResult.approved)
                                             THEN "APPROVED"
                                             ELSE "CHANGES REQUESTED"])

\* the approval check left out
ReviewRejectedOff == FALSE

\* the approval check looking at the issue list as well
ReviewRejectedOnIssues ==
    /\ lastReviewResult # Null
    /\ \/ ~Truthy(lastReviewResult.approved)
       \/ lastReviewResult.issues # <<>>

\* the two guards in front of octokit.pulls.create
ReviewRequired == ~reviewCompleted
ReviewRejected == lastReviewResult # Null /\ ~Truthy(lastReviewResult.approved)

\* a failure of the comment or of the transition reaching the catch block
\* of the tool call
PullRequestResultUnlessJiraFails(commented, moved) ==
    IF commented /\ moved THEN "success" ELSE "thrown"

\* the result built right after pulls.create; the comment and the
\* transition that follow have a try block each, whose catch only logs
PullRequestResult(commented, moved) == "success"

CreatePullRequest ==
    /\ pc = "tools"
    /\ UNCHANGED concurrent
    /\ UNCHANGED wait
    /\ UNCHANGED <<defaultBranch, branchSha, filesRead, reviewCompleted,
                   lastReviewResult, branchExists, workTree, reviewLog, approvalStale>>
    /\ IF ReviewRequired
       THEN /\ UNCHANGED <<createdPrNumber, openPrs, jira>>
            /\ Finish(Result("create_pull_request", "", "review_required", 0))
       ELSE IF ReviewRejected
       THEN /\ UNCHANGED <<createdPrNumber, openPrs, jira>>
            /\ Finish(Result("create_pull_request", "", "review_issues", 0))
       ELSE \/ \* pulls.create fails (transport, or 422 from the host)
               /\ UNCHANGED <<createdPrNumber, openPrs, jira>>
               /\ Finish(Result("create_pull_request", "", "thrown", 1))
            \/ /\ PullStatus = 201
               /\ openPrs' = openPrs + 1
               /\ createdPrNumber' = openPrs + 1
               \* the comment and the transition to CodeReviewStatus may
               \* each fail; both failures are logged and swallowed
               /\ \E commented \in BOOLEAN, moved \in BOOLEAN :
                    /\ jira' = [jira EXCEPT !.comments =
                                    IF commented THEN @ + 1 ELSE @]
                    /\ Finish([name |-> "create_pull_request", path |-> "",
                               kind |-> PullRequestResult(commented, moved),
                               reqs |-> 1,
                               commented |-> commented,
                               ticket |-> IF moved THEN CodeReviewStatus
                                          ELSE "unchanged"])

\* an unknown tool name raising an exception
UnknownToolThrows ==
    /\ pc = "tools"
    /\ UNCHANGED concurrent
    /\ UNCHANGED wait
    /\ KeepAll
    /\ Finish(Result("unknown", "", "thrown", 0))

\* the final else of the dispatch
UnknownTool ==
    /\ pc = "tools"
    /\ UNCHANGED concurrent
    /\ UNCHANGED wait
    /\ KeepAll
    /\ Finish(Result("unknown", "", "unknown_tool", 0))

\* after the loop: the completion comment when a pull request was created
\* (a failure to post it is logged and swallowed)
Completion ==
    /\ pc = "completion"
    /\ UNCHANGED concurrent
    /\ UNCHANGED wait
    /\ pc' = "done"
    /\ IF createdPrNumber # NullPr
       THEN \E commented \in BOOLEAN :
                jira' = [jira EXCEPT !.comments = IF commented THEN @ + 1 ELSE @]
       ELSE UNCHANGED jira
    /\ UNCHANGED <<i, remaining, modelCalls, session, host, messages,
                   toolResults, outcome, reviewLog, approvalStale, req, res, last>>

\* the revision applied only to paths of the read-set
RevisionAllowedIfRead(path) == FileExists(path) /\ path \in filesRead

\* a revision is written when getContent at the working branch finds the
\* path: if ('sha' in fileData)
RevisionAllowed(path) == FileExists(path)

\* The browser testing phase, which in the later revision of the handler
\* takes the place of the completion comment: the wait for the preview, the
\* test, the visual review and, when the review asks for it, the revision
\* (one FILE block of the revision response is drawn, or none). Every
\* comment of the phase may fail to be posted.
BrowserTesting ==
    /\ pc = "completion"
    /\ UNCHANGED concurrent
    /\ UNCHANGED wait
    /\ createdPrNumber # NullPr
    /\ pc' = "done"
    /\ UNCHANGED <<i, remaining, modelCalls, session, branchExists, openPrs,
                   messages, toolResults, outcome, reviewLog, req, res, last>>
    /\ \/ \* no preview, an error, or the tests pass
          /\ \E posted \in 0..2 :
                jira' = [jira EXCEPT !.comments = @ + posted]
          /\ UNCHANGED <<workTree, approvalStale>>
       \/ \* NEEDS_REVISION and no FILE block in the revision response
          /\ jira' = [jira EXCEPT !.comments = @ + 2]
          /\ UNCHANGED <<workTree, approvalStale>>
       \/ \* NEEDS_REVISION and a FILE block for path
          \E path \in Paths, content \in Contents, written \in BOOLEAN :
            /\ jira' = [jira EXCEPT !.comments = @ + 3]
            /\ IF RevisionAllowed(path) /\ written
               THEN /\ workTree' = [workTree EXCEPT ![path] = content]
                    /\ approvalStale' = (approvalStale \/ reviewLog = "true")
               ELSE UNCHANGED <<workTree, approvalStale>>

Next ==
    \/ Handler
    \/ HandlerReturn
    \/ ModelCall
    \/ ReadFile
    \/ ListFiles
    \/ SearchCode
    \/ GetDefaultBranch
    \/ CreateBranch
    \/ UpdateFile
    \/ CreateFile
    \/ RequestCodeReview
    \/ CreatePullRequest
    \/ UnknownTool
    \/ Completion
    \/ BrowserTesting

Spec == Init /\ [][Next]_vars

\* ------------------------------------------------------- two invocations
\* Two webhook requests served at once. Each invocation of processIssueAsync
\* declares its own filesRead, reviewCompleted, lastReviewResult and
\* createdPrNumber; the host is the one thing both reach. The steps are the
\* tool cases of the loop reduced to what they read and write of these
\* variables; the variables of the single invocation above stay as Init
\* leaves them.

\* let/const declarations at the head of processIssueAsync
NewLocals ==
    [at |-> "loop", filesRead |-> {}, reviewCompleted |-> FALSE,
     lastReviewResult |-> Null, createdPrNumber |-> NullPr]

\* a read-set kept in one place for every invocation
FilesReadAddShared(all, s, path) ==
    [t \in Sessions |->
        IF all[t].at = "idle" THEN all[t]
        ELSE [all[t] EXCEPT !.filesRead = @ \cup {path}]]

\* filesRead.add(input.path) on the set of the invocation
FilesReadAdd(all, s, path) == [all EXCEPT ![s].filesRead = @ \cup {path}]

\* if (!filesRead.has(input.path)), for the invocation s
UpdateFileGuardOf(s, path) ==
    sessions[s].at # "idle" /\ path \in sessions[s].filesRead

\* the two guards in front of octokit.pulls.create, for the invocation s
PullRequestGateOf(s) ==
    /\ sessions[s].at # "idle"
    /\ sessions[s].reviewCompleted
    /\ ~(/\ sessions[s].lastReviewResult # Null
         /\ ~Truthy(sessions[s].lastReviewResult.approved))

\* pull requests the host holds, one per invocation that created one
HostPrs == Cardinality({t \in Sessions : /\ sessions[t].at # "idle"
                                         /\ sessions[t].createdPrNumber # NullPr})

Step(s, name, kind) == acting' = [session |-> s, name |-> name, kind |-> kind]

KeepSingle ==
    UNCHANGED <<pc, i, remaining, modelCalls, session, host, jira, messages,
                toolResults, outcome, reviewLog, approvalStale, req, res, last,
                wait>>

ProcessIssue(s) ==
    /\ sessions[s].at = "idle"
    /\ sessions' = [sessions EXCEPT ![s] = NewLocals]
    /\ Step(s, "processIssueAsync", "started")
    /\ KeepSingle

SessionReadFile(s) ==
    /\ sessions[s].at = "loop"
    /\ KeepSingle
    /\ \E path \in Paths :
        IF DefaultTree[path] # Absent
        THEN /\ sessions' = FilesReadAdd(sessions, s, path)
             /\ Step(s, "read_file", "success")
        ELSE /\ UNCHANGED sessions
             /\ Step(s, "read_file", "not_found")

SessionUpdateFile(s) ==
    /\ sessions[s].at = "loop"
    /\ KeepSingle
    /\ UNCHANGED sessions
    /\ \E path \in Paths :
        IF ~UpdateFileGuardOf(s, path)
        THEN Step(s, "update_file", "must_read")
        ELSE \E kind \in {"success", "thrown"} : Step(s, "update_file", kind)

SessionRequestCodeReview(s) ==
    /\ sessions[s].at = "loop"
    /\ KeepSingle
    /\ \/ \* no branch yet, no diff, or no changes: no verdict
          /\ UNCHANGED sessions
          /\ Step(s, "request_code_review", "review_failed")
       \/ \E resp \in ReviewerResponses :
            /\ sessions' = [sessions EXCEPT
                               ![s].reviewCompleted = TRUE,
                               ![s].lastReviewResult = reviewCodeChanges(resp)]
            /\ Step(s, "request_code_review", "success")

SessionCreatePullRequest(s) ==
    /\ sessions[s].at = "loop"
    /\ KeepSingle
    /\ IF ~PullRequestGateOf(s)
       THEN /\ UNCHANGED sessions
            /\ Step(s, "create_pull_request", "denied")
       ELSE \/ /\ UNCHANGED sessions
               /\ Step(s, "create_pull_request", "thrown")
            \/ /\ sessions' = [sessions EXCEPT
                                  ![s].createdPrNumber = HostPrs + 1,
                                  ![s].at = "done"]
               /\ Step(s, "create_pull_request", "success")

NextTwo ==
    \E s \in Sessions :
        \/ ProcessIssue(s)
        \/ SessionReadFile(s)
        \/ SessionUpdateFile(s)
        \/ SessionRequestCodeReview(s)
        \/ SessionCreatePullRequest(s)

InitTwo ==
    /\ Init
    /\ req = [method |-> "POST", secret |-> TRUE, issue |-> "labelled",
              repository |-> TRUE]

SpecTwo == InitTwo /\ [][NextTwo]_vars

\* ------------------------------------------------ waitForVercelDeployment
\* The wait for the preview on its own: the call with maxWaitMinutes drawn
\* from 0..MaxWaitMinutes (the handler passes 5), one step per turn of the
\* while loop, and the return after the loop. The variables of the handler
\* stay as Init leaves them.
MaxWaitMinutes == 5

\* (maxWaitMinutes * 60) / 10: one poll every 10 seconds
PollsPerMinute == 6

\* what one turn of the loop can find: listComments throws, no comment of
\* the Vercel bot, no payload in it, a payload that does not parse, no main
\* project in it, a project not yet deployed, a project deployed with its
\* preview URL
PollOutcomes ==
    {"error", "no_comment", "no_payload", "bad_payload", "no_project",
     "not_ready", "ready"}

\* the locals at the head of waitForVercelDeployment; polls counts the
\* requests sent to the host
Waiting(maxWaitMinutes) ==
    [at |-> "loop", maxAttempts |-> maxWaitMinutes * PollsPerMinute,
     attempts |-> 0, polls |-> 0, found |-> "none", returned |-> "none"]

\* the catch block leaving the counter alone
AttemptsAfterErrorKept(attempts) == attempts

\* attempts++ in the catch block
AttemptsAfterError(attempts) == attempts + 1

KeepHandler ==
    UNCHANGED <<pc, i, remaining, modelCalls, session, host, jira, messages,
                toolResults, outcome, reviewLog, approvalStale, req, res, last,
                sessions, acting>>

\* the call from the browser testing phase
CallWait ==
    /\ wait.at = "idle"
    /\ \E maxWaitMinutes \in 0..MaxWaitMinutes :
            wait' = Waiting(maxWaitMinutes)
    /\ KeepHandler

\* one turn of while (attempts < maxAttempts)
PollDeployment ==
    /\ wait.at = "loop"
    /\ wait.attempts < wait.maxAttempts
    /\ KeepHandler
    /\ \E found \in PollOutcomes :
        LET polled == [wait EXCEPT !.polls = @ + 1, !.found = found] IN
        wait' = IF found = "ready"
                THEN [polled EXCEPT !.at = "returned", !.returned = "url"]
                ELSE IF found = "error"
                THEN [polled EXCEPT !.attempts = AttemptsAfterError(@)]
                ELSE [polled EXCEPT !.attempts = @ + 1]

\* the loop condition fails: return null
WaitTimedOut ==
    /\ wait.at = "loop"
    /\ ~(wait.attempts < wait.maxAttempts)
    /\ wait' = [wait EXCEPT !.at = "returned", !.returned = "null"]
    /\ KeepHandler

NextWait == CallWait \/ PollDeployment \/ WaitTimedOut

\* the event loop runs the function to its return
SpecWait == InitTwo /\ [][NextWait]_vars /\ WF_vars(NextWait)

\* ------------------------------------------------------------------ claims
\* a tool step of the given name has just been taken
Called(name) == pc = "tools" /\ last'.name = name

\* C1: update_file(P) writes to the working branch or returns success only
\* if P is in the read-set, that is, only after a read_file(P) of this
\* session returned the file's content.
C1_UpdateOnlyAfterRead ==
    [][ (Called("update_file")
            /\ (last'.kind = "success" \/ workTree' # workTree))
        => last'.path \in filesRead ]_vars

C1_Witness ==
    /\ last.name = "update_file"
    /\ last.kind = "success"
    /\ workTree[last.path] # DefaultTree[last.path]

\* C2: create_pull_request opens a pull request only if the latest review
\* verdict handed to the agent was approved = true; with no verdict it is
\* denied as review required, and with a latest verdict that is not an
\* approval it is denied whatever earlier verdicts said.
C2_PrOnlyAfterLatestApproval ==
    [][ Called("create_pull_request") =>
            /\ (last'.kind = "success" \/ openPrs' # openPrs)
                    => reviewLog = "true"
            /\ reviewLog = "none" => last'.kind = "review_required"
            /\ reviewLog \notin {"none", "true"}
                    => last'.kind = "review_issues" ]_vars

C2_Witness ==
    /\ last.name = "create_pull_request"
    /\ last.kind = "success"
    /\ openPrs = 1
    /\ reviewLog = "true"

\* C3: update_file(P) with P outside the read-set always answers with the
\* must-read denial, whether or not P exists on either branch, and sends no
\* request to the repository host.
C3_UnreadUpdateDenied ==
    [][ (Called("update_file") /\ last'.path \notin filesRead)
        => /\ last'.kind = "must_read"
           /\ last'.reqs = 0
           /\ host' = host ]_vars

C3_Witness ==
    /\ last.name = "update_file"
    /\ last.kind = "must_read"
    /\ last.path = "x.ts"
    /\ branchExists
    /\ workTree["x.ts"] # Absent

\* the ways the reviewer's model call fails
ReviewCallFailures == {"api_error", "no_text", "no_json", "bad_json"}

\* C4: when the reviewer's call fails, request_code_review answers success
\* with approved = true and no issues, that verdict is stored as the latest
\* one, and the guards of create_pull_request are open.
C4_ReviewFailureApproves ==
    (/\ last.name = "request_code_review"
     /\ last.kind = "success"
     /\ last.response.kind \in ReviewCallFailures)
    => /\ last.approved = "true"
       /\ last.status = "APPROVED"
       /\ reviewCompleted
       /\ lastReviewResult # Null
       /\ lastReviewResult.approved = "true"
       /\ lastReviewResult.issues = <<>>
       /\ ~ReviewRequired
       /\ ~ReviewRejected

C4_Witness ==
    /\ last.name = "request_code_review"
    /\ last.kind = "success"
    /\ last.response.kind = "no_json"
    /\ lastReviewResult = PermissiveResult


\* a reviewer response that is JSON of the verdict schema
WellFormed(resp) ==
    /\ resp.kind = "json"
    /\ resp.approved \in {"true", "false"}
    /\ resp.has_issues

\* C5: a reviewer response that is not well-formed JSON of the verdict
\* schema yields the permissive verdict (approved = true, no issues) and
\* never a changes-requested status.
C5_MalformedVerdictFailsOpen ==
    (/\ last.name = "request_code_review"
     /\ last.kind = "success"
     /\ ~WellFormed(last.response))
    => /\ last.status = "APPROVED"
       /\ lastReviewResult.approved = "true"
       /\ lastReviewResult.issues = <<>>

LoopEnded == pc \in {"completion", "done"}

\* C6 as stated: the loop ends after exactly min(k, 25) model calls, k being
\* the position of the first end_turn response: with no end_turn it makes
\* exactly 25 calls.
C6_ExactlyMinCalls ==
    LoopEnded => \/ outcome = "completed" /\ modelCalls <= MaxTurns
                 \/ modelCalls = MaxTurns

\* C6 as amended: the loop never makes more than 25 model calls and makes
\* none after it has ended; it ends on the first end_turn response, on the
\* first model call that throws, or else after exactly 25 calls.
C6_CallsBounded ==
    /\ [](/\ modelCalls <= MaxTurns
          /\ LoopEnded => outcome \in {"completed", "exhausted", "aborted"}
          /\ outcome = "exhausted" => modelCalls = MaxTurns
          /\ outcome = "running" => pc \in {"model", "tools"})
    /\ [][LoopEnded => modelCalls' = modelCalls]_vars

C6_Witness ==
    /\ pc = "done"
    /\ outcome = "exhausted"
    /\ modelCalls = MaxTurns

C8_SinglePrCreation ==
    [][ (Called("create_pull_request") /\ createdPrNumber # NullPr)
        => /\ last'.reqs = 0
           /\ openPrs' = openPrs
           /\ createdPrNumber' = createdPrNumber ]_vars

\* the diff between the default branch and the working branch is empty
EmptyDiff == Len(CompareFiles(workTree)) = 0

\* C9: request_code_review on an empty diff never reaches the reviewer and
\* leaves the review flag and the last verdict as they were; when the diff
\* was fetched, the answer is the no-changes denial.
C9_EmptyDiffDenied ==
    [][ (Called("request_code_review") /\ EmptyDiff)
        => /\ last'.kind # "success"
           /\ reviewCompleted' = reviewCompleted
           /\ lastReviewResult' = lastReviewResult
           /\ reviewLog' = reviewLog
           /\ (branchExists /\ defaultBranch # ""
                    /\ last'.kind # "review_failed")
                => last'.kind = "no_changes" ]_vars

C9_Witness ==
    /\ last.name = "request_code_review"
    /\ last.kind = "no_changes"
    /\ workTree = DefaultTree
    /\ lastReviewResult # Null
    /\ reviewCompleted

\* C10: request_code_review stores a verdict exactly when the working branch
\* exists and the diff is non-empty, whatever the changed files contain (a
\* failed request to the host aside).
C10_VerdictIffNonEmptyDiff ==
    [][ (Called("request_code_review")
            /\ ~(branchExists /\ last'.kind = "review_failed"))
        => ((last'.kind = "success" /\ lastReviewResult' # Null)
                <=> (branchExists /\ ~EmptyDiff)) ]_vars

\* the results that report success to the model
SuccessKinds == {"success", "success_already_exists"}

\* C11: create_branch issued while no base revision is recorded (branchSha
\* is empty) answers with a denial and never reports success.
C11_NoBranchWithoutBase ==
    [][ (Called("create_branch") /\ branchSha = "")
        => last'.kind \notin SuccessKinds ]_vars

\* C12: create_branch after get_default_branch is idempotent: when the host
\* answers the request, the first call creates the branch and reports
\* success, every later call reports success with the already-exists flag,
\* and no call reports an error, changes the branch's tree or changes the
\* session.
C12_CreateBranchIdempotent ==
    [][ (Called("create_branch") /\ branchSha # ""
            /\ last'.status \in {201, 422})
        => /\ last'.kind = IF branchExists THEN "success_already_exists"
                           ELSE "success"
           /\ branchExists'
           /\ workTree' = workTree
           /\ openPrs' = openPrs
           /\ session' = session ]_vars

C12_Witness ==
    /\ last.name = "create_branch"
    /\ last.kind = "success_already_exists"
    /\ last.status = 422
    /\ branchSha # ""
    /\ branchExists

\* C13: a tool call whose result is a denial or an error leaves every
\* session variable as it was: the read-set, the default branch name and
\* the base revision, the review flag and the last verdict, and the created
\* pull request number change only when a tool call succeeds.
C13_FailureKeepsSession ==
    [][ (pc = "tools" /\ last'.name # "none"
            /\ last'.kind \notin SuccessKinds)
        => session' = session ]_vars

\* the exception of a failed request (to the repository host or to the
\* reviewer's diff), as opposed to a TypeError raised by a missing argument
TransportFailure(result) ==
    /\ result.kind \in {"thrown", "review_failed", "search_failed"}
    /\ "cause" \notin DOMAIN result

\* C14: a transport or authentication failure of the repository host or of
\* the model aborts the session, so that no further turn is run, and the
\* caller is told of a failed task, not of a completed one.
C14_FailureAbortsAndIsReported ==
    /\ [][ (pc = "tools" /\ last'.name # "none" /\ TransportFailure(last'))
           => (pc' = "done" /\ outcome' = "aborted") ]_vars
    /\ []((pc = "responded" /\ outcome = "aborted")
            => (res.status >= 400 /\ res.message # "Processing completed"))

\* what the caller is told after a run that ended on end_turn
CompletedReport == [status |-> 200, message |-> "Processing completed"]

\* C15: the caller is told of a run that exhausted the turn budget something
\* else than of a run that ended on the model's completion signal.
C15_ExhaustedDistinguished ==
    (pc = "responded" /\ outcome = "exhausted") => res # CompletedReport

\* after a tool call: the next tool call of the response, or else the next
\* turn, or else the completion phase when the turn budget is spent
LoopGoesOn ==
    /\ remaining' = remaining - 1
    /\ pc' = IF remaining > 1 THEN "tools"
             ELSE IF i + 1 < MaxTurns THEN "model"
             ELSE "completion"
    /\ i' = IF remaining > 1 THEN i ELSE i + 1
    /\ outcome' = IF remaining = 1 /\ i + 1 >= MaxTurns THEN "exhausted"
                  ELSE "running"

\* C16: an exception thrown while one tool call is executed, a missing
\* required argument included, becomes the error result of that call alone:
\* the result is added to the results of the turn, the remaining tool calls
\* of the response are executed and the loop goes on to the next turn.
C16_ThrownCallContinues ==
    [][ (pc = "tools" /\ last'.kind = "thrown")
        => /\ toolResults'
                = Append(toolResults, [tool_use_id |-> CurrentBlock])
           /\ LoopGoesOn ]_vars

C16_Witness ==
    /\ pc = "tools"
    /\ remaining = 1
    /\ last.kind = "thrown"
    /\ "cause" \in DOMAIN last
    /\ last.cause = "TypeError"
    /\ Len(toolResults) = 1

\* C17: for every model response holding tool calls exactly one user message
\* follows it in the transcript, holding exactly one tool_result for every
\* tool_use block of the response, in the order of the blocks and with the
\* blocks' ids; while the blocks are executed the results collected are
\* those of the blocks executed so far.
C17_ResultsPaired ==
    LET response == messages[1]
        ids(results) == [k \in 1..Len(results) |-> results[k].tool_use_id]
    IN (response.role = "assistant" /\ Len(response.content) > 0)
       => IF pc = "tools"
          THEN /\ Len(messages) = 1
               /\ remaining \in 1..Len(response.content)
               /\ ids(toolResults)
                    = SubSeq(response.content, 1,
                             Len(response.content) - remaining)
          ELSE /\ Len(messages) = 2
               /\ messages[2].role = "user"
               /\ ids(messages[2].content) = response.content

C17_Witness ==
    /\ pc = "model"
    /\ Len(messages) = 2
    /\ Len(messages[1].content) = 2
    /\ Len(messages[2].content) = 2
    /\ last.kind = "thrown"

\* C18: a tool call with a name outside the declared tool set is answered
\* with the unknown-tool denial, changes no session state, sends no request
\* to the repository host or to Jira, and the loop goes on with the next
\* tool call or turn.
C18_UnknownToolDenied ==
    [][ Called("unknown")
        => /\ last'.kind = "unknown_tool"
           /\ last'.reqs = 0
           /\ session' = session
           /\ host' = host
           /\ jira' = jira
           /\ reviewLog' = reviewLog
           /\ LoopGoesOn ]_vars

C18_Witness ==
    /\ last.name = "unknown"
    /\ last.kind = "unknown_tool"
    /\ pc = "tools"
    /\ filesRead # {}

\* C19: a POST that does not carry the configured webhook secret is answered
\* with status 400, 401 or 403 and causes no ticket validation, no agent
\* session and no Jira call.
C19_SecretRequired ==
    [][ (pc = "received" /\ req.method = "POST" /\ ~req.secret)
        => /\ res'.status \in {400, 401, 403}
           /\ pc' = "responded"
           /\ last' = NoCall
           /\ jira' = jira ]_vars

\* C20: a request whose method is not POST is answered with status 405 and
\* causes no ticket validation, agent session, repository call or Jira call;
\* nothing happens after the response.
C20_NonPostRejected ==
    /\ [][ (pc = "received" /\ req.method # "POST")
           => /\ res'.status = 405
              /\ pc' = "responded"
              /\ last' = NoCall
              /\ modelCalls' = modelCalls
              /\ session' = session
              /\ host' = host
              /\ jira' = jira ]_vars
    /\ [][pc # "responded"]_vars

C20_Witness ==
    /\ pc = "responded"
    /\ res.status = 405
    /\ modelCalls = 0
    /\ last = NoCall

ValidatedFalse(call) ==
    /\ call.name = "validateTicketContent"
    /\ call.response.kind = "json"
    /\ call.response.valid = "false"

\* C22: when ticket validation returns valid = false the feedback comment is
\* posted to the ticket (a failed request to Jira aside, which is answered
\* with status 500) and the agent session is not started for the request:
\* no model call, no branch, no file write, no review and no pull request.
C22_InvalidTicketStopsHere ==
    /\ [][ (pc = "received" /\ ValidatedFalse(last'))
           => /\ pc' = "responded"
              /\ \/ /\ jira'.comments = jira.comments + 1
                    /\ res' = [status |-> 200,
                               message |-> "Ticket validation failed"]
                 \/ /\ jira' = jira
                    /\ res'.status = 500
              /\ modelCalls' = modelCalls
              /\ session' = session
              /\ host' = host
              /\ reviewLog' = reviewLog ]_vars
    /\ [][pc # "responded"]_vars

C22_Witness ==
    /\ pc = "responded"
    /\ ValidatedFalse(last)
    /\ res.message = "Ticket validation failed"
    /\ jira.comments = 1
    /\ modelCalls = 0
    /\ ~branchExists

\* C23: for a ticket that passed the label check and the validation, the
\* processing has posted a status report to the ticket by the time it ends,
\* whatever the outcome of the session: pull request created, completed
\* without one, turn budget exhausted, or aborted by an error.
C23_StatusAlwaysReported ==
    (pc = "responded" /\ outcome \in {"completed", "exhausted", "aborted"})
        => jira.comments > 0

\* C24: create_file(P) for a path that exists on the working branch answers
\* with the already-exists denial (a failed existence request aside) and
\* sends no write; the working tree changes only when P was absent from the
\* working branch, and then only at P.
C24_CreateOnlyAbsent ==
    [][ Called("create_file")
        => /\ GetContent(last'.path, branchName) # Absent
                => /\ last'.kind \in {"already_exists", "thrown"}
                   /\ last'.reqs = 1
                   /\ workTree' = workTree
           /\ workTree' # workTree
                => /\ GetContent(last'.path, branchName) = Absent
                   /\ last'.kind = "success"
                   /\ \A p \in Paths \ {last'.path} :
                        workTree'[p] = workTree[p] ]_vars

C24_Witness ==
    /\ last.name = "create_file"
    /\ last.kind = "already_exists"
    /\ last.path = "x.ts"
    /\ workTree["x.ts"] # Absent

\* P exists on neither the working branch nor the default branch
OnNeitherBranch(path) ==
    /\ GetContent(path, branchName) = Absent
    /\ GetContent(path, defaultBranch) = Absent

\* C25: update_file(P) on a read path writes with the revision of P on the
\* working branch when P exists there and else with the revision on the
\* default branch; it answers with the not-found denial exactly when P
\* exists on neither branch (a failed request aside), and then writes
\* nothing.
C25_NotFoundIffNowhere ==
    [][ (Called("update_file") /\ last'.path \in filesRead
            /\ last'.kind # "thrown")
        => /\ (last'.kind = "not_found") <=> OnNeitherBranch(last'.path)
           /\ last'.kind = "not_found" => workTree' = workTree ]_vars

\* C26: whether create_pull_request is let through depends only on the
\* approved field of the latest verdict: with approved = true it is let
\* through to the host even when the verdict lists critical issues, with
\* another value it is denied even when the issue list is empty.
C26_GateUsesApprovedOnly ==
    [][ (Called("create_pull_request") /\ lastReviewResult # Null)
        => IF lastReviewResult.approved = "true"
           THEN last'.kind \in {"success", "thrown"} /\ last'.reqs = 1
           ELSE last'.kind = "review_issues" /\ last'.reqs = 0 ]_vars

C26_Witness ==
    /\ last.name = "create_pull_request"
    /\ last.kind = "success"
    /\ lastReviewResult # Null
    /\ lastReviewResult.approved = "true"
    /\ lastReviewResult.issues = <<"critical">>

\* P was created on the working branch by this session
CreatedInSession(path) ==
    /\ branchExists
    /\ workTree[path] # Absent
    /\ DefaultTree[path] = Absent

\* C27: of two sessions running at once, a step of one (a read_file, a review
\* verdict, a created pull request) leaves the update_file guard of every
\* path and the create_pull_request gate of the other as they were.
C27_SessionsShareNothing ==
    [][ \A s \in Sessions :
            acting'.session # s
                => /\ \A path \in Paths :
                        UpdateFileGuardOf(s, path)' = UpdateFileGuardOf(s, path)
                   /\ PullRequestGateOf(s)' = PullRequestGateOf(s)
                   /\ sessions'[s] = sessions[s] ]_vars

\* one session has read a.ts, has its approval and has passed both guards;
\* the other is running and has neither the read nor a review
C27_Witness ==
    /\ acting = [session |-> 1, name |-> "create_pull_request",
                 kind |-> "success"]
    /\ "a.ts" \in sessions[1].filesRead
    /\ sessions[2].at = "loop"
    /\ ~UpdateFileGuardOf(2, "a.ts")
    /\ ~PullRequestGateOf(2)

\* C28: a file created with create_file can be revised in the same session:
\* read_file(P) of the created file returns its content (a failed request
\* aside) and puts P into the read-set, so that a following update_file(P)
\* passes the read-before-update guard.
C28_CreatedFileCanBeRevised ==
    [][ (Called("read_file") /\ CreatedInSession(last'.path)
            /\ last'.kind # "thrown")
        => /\ last'.kind = "success"
           /\ last'.path \in filesRead' ]_vars

\* what holds instead: update_file never succeeds on a file the session
\* created
CreatedFileNeverUpdated ==
    [][ Called("update_file") /\ CreatedInSession(last'.path)
        => last'.kind # "success" ]_vars

\* C29: create_pull_request succeeds only if no update_file or create_file
\* has succeeded since the most recent approving review, so that every
\* change in the pull request was in the diff the approving review saw.
C29_NoWriteSinceApproval ==
    [][ (Called("create_pull_request") /\ last'.kind = "success")
        => ~approvalStale ]_vars

\* C30: every update of a file that exists on the working branch, in every
\* phase of the processing, the revision after the browser test included,
\* is of a path of the read-set.
C30_UpdatesOnlyReadPaths ==
    [][ \A p \in Paths :
            (GetContent(p, branchName) # Absent /\ workTree'[p] # workTree[p])
                => p \in filesRead ]_vars

\* the validator itself failed on the request just handled: its model call
\* threw, or the response held no text block or no JSON that parses
ValidatorFailed ==
    /\ pc = "received"
    /\ last'.name = "validateTicketContent"
    /\ last'.response.kind # "json"

\* C31 as stated: when the validator itself fails, validation counts as passed
\* and the agent session is started.
C31_FailedValidatorStartsSession ==
    [][ ValidatorFailed => (last'.kind = "valid" /\ pc' = "model") ]_vars

\* C31: when the validator itself fails, validation counts as passed: no
\* feedback comment is posted and the request is not answered 'Ticket
\* validation failed'; the agent session is started when the ticket names a
\* repository, and the request is answered with status 500 when it does not.
C31_ValidatorFailsOpen ==
    [][ ValidatorFailed
            => /\ last'.kind = "valid"
               /\ jira' = jira
               /\ IF req.repository
                  THEN pc' = "model" /\ outcome' = "running" /\ res' = res
                  ELSE pc' = "responded" /\ res'.status = 500 ]_vars

\* the session started after a validator call that threw
C31_Witness ==
    /\ pc = "model"
    /\ outcome = "running"
    /\ last.name = "validateTicketContent"
    /\ last.response.kind = "api_error"
    /\ last.kind = "valid"

\* C32: the tool calls of one response are executed one after another in the
\* order of the response: every tool step executes the first block not yet
\* executed and no other, and completes before the next (its result is
\* collected, or it is the last of the session); so an update_file(P) that
\* follows a successful read_file(P) in the same response passes the
\* read-before-update guard.
C32_BlocksInOrder ==
    [][ pc = "tools"
            => LET response == messages[1].content
                   executed == Len(response) - remaining
               IN /\ remaining' = remaining - 1
                  /\ toolResults'
                        = Append(toolResults,
                                 [tool_use_id |-> response[executed + 1]])
                  /\ (/\ last.name = "read_file"
                      /\ last.kind = "success"
                      /\ last'.name = "update_file"
                      /\ last'.path = last.path)
                        => last'.kind # "must_read" ]_vars

\* the first response holds read_file(a.ts) and update_file(a.ts), in that
\* order, and the update has passed the guard
C32_Witness ==
    /\ modelCalls = 1
    /\ Len(messages[1].content) = 2
    /\ Len(toolResults) = 2
    /\ last.name = "update_file"
    /\ last.path = "a.ts"
    /\ last.kind # "must_read"

\* C33: every model call of the loop is made with a transcript whose roles
\* alternate and whose last message has role user: whenever the loop is about
\* to call the model, the transcript from the latest assistant message on is
\* that message followed by one user message (or is the first prompt alone).
C33_TranscriptAlternates ==
    pc = "model"
        => /\ messages[Len(messages)].role = "user"
           /\ \A k \in 1..Len(messages) - 1 :
                 messages[k].role # messages[k + 1].role

\* the content the session's latest successful write left at the path on the
\* working branch differs from what the default branch holds there
WrittenInSession(path) ==
    branchExists /\ workTree[path] # DefaultTree[path]

\* C34: read_file observes the session's own writes: a read_file(P) answered
\* by the host after update_file(P) or create_file(P) succeeded returns the
\* content just written.
C34_ReadSeesOwnWrites ==
    [][ (/\ Called("read_file")
         /\ last'.kind # "thrown"
         /\ WrittenInSession(last'.path))
            => /\ last'.kind = "success"
               /\ last'.content = workTree[last'.path] ]_vars

\* the call just executed sent a write of file content to the host
WriteSent(call) == "branch" \in DOMAIN call

\* C35: every write of file content that update_file and create_file send
\* targets the working branch, the lower-cased issue key followed by
\* -implementation, and never the default branch; a write that succeeds
\* leaves its content on the working branch; no other tool call sends one.
C35_WritesTargetWorkingBranch ==
    [][ pc = "tools"
            => /\ WriteSent(last')
                    => /\ last'.name \in {"update_file", "create_file"}
                       /\ last'.branch = branchName
                       /\ last'.branch \notin {defaultBranch, HostDefaultBranch}
               /\ (/\ last'.name \in {"update_file", "create_file"}
                   /\ last'.kind = "success")
                    => /\ WriteSent(last')
                       /\ branchExists
                       /\ workTree'[last'.path] \in Contents
               /\ workTree' # workTree
                    => WriteSent(last') /\ last'.kind = "success" ]_vars

\* a file created and a file updated on the working branch, the default
\* branch known to the session
C35_Witness ==
    /\ defaultBranch = HostDefaultBranch
    /\ last.name = "update_file"
    /\ last.kind = "success"
    /\ last.branch = branchName
    /\ workTree["x.ts"] # Absent
    /\ workTree["a.ts"] # DefaultTree["a.ts"]

\* C36: when fetching the diff fails during request_code_review (as it does
\* whenever the working branch does not exist on the host) the call returns
\* the 'Review failed' denial after the one request for the diff: the
\* reviewer is not invoked, the review-completed flag and the last verdict
\* stay as they were, and so does the answer of the create_pull_request gate.
C36_DiffFailureIsNoApproval ==
    [][ Called("request_code_review")
            => /\ (defaultBranch # "" /\ ~branchExists)
                    => last'.kind = "review_failed"
               /\ last'.kind = "review_failed"
                    => /\ last'.reqs = 1
                       /\ reviewCompleted' = reviewCompleted
                       /\ lastReviewResult' = lastReviewResult
                       /\ reviewLog' = reviewLog
                       /\ ReviewRequired' = ReviewRequired
                       /\ ReviewRejected' = ReviewRejected ]_vars

\* the diff failed for a session with no review yet: the gate stays closed
C36_Witness ==
    /\ last.name = "request_code_review"
    /\ last.kind = "review_failed"
    /\ defaultBranch # ""
    /\ ~reviewCompleted
    /\ lastReviewResult = Null

\* C37: a failure to post the Jira comment or to move the ticket right after
\* the pull request is created does not change the outcome of
\* create_pull_request: whenever the call created the pull request its result
\* is the success, createdPrNumber holds the number of the pull request, and
\* the loop goes on.
C37_JiraFailureKeepsSuccess ==
    [][ (Called("create_pull_request") /\ openPrs' # openPrs)
            => /\ last'.kind = "success"
               /\ createdPrNumber' = openPrs'
               /\ createdPrNumber' # NullPr
               /\ LoopGoesOn ]_vars

\* the pull request created, the comment not posted and the ticket not moved
C37_Witness ==
    /\ last.name = "create_pull_request"
    /\ last.kind = "success"
    /\ ~last.commented
    /\ last.ticket = "unchanged"
    /\ createdPrNumber = 1
    /\ jira.comments = 0

\* what holds of the wait at every moment: never more polls than
\* maxWaitMinutes * 6; every poll that found no ready deployment, a failed
\* one included, counted as one attempt and left the wait going; null
\* returned only after that many attempts; a URL returned only from a poll
\* that found a ready deployment
WaitBounded ==
    wait.at # "idle"
        => /\ wait.polls <= wait.maxAttempts
           /\ wait.maxAttempts <= MaxWaitMinutes * PollsPerMinute
           /\ wait.attempts = IF wait.found = "ready" THEN wait.polls - 1
                              ELSE wait.polls
           /\ wait.returned = "url" <=> wait.found = "ready"
           /\ wait.returned = "null"
                => wait.at = "returned" /\ wait.attempts = wait.maxAttempts
           /\ wait.at = "returned" <=> wait.returned # "none"

C39_FlagIffVerdict ==
    /\ reviewCompleted <=> lastReviewResult # Null
    /\ (~ReviewRequired /\ ~ReviewRejected) => lastReviewResult # Null
    /\ createdPrNumber # NullPr => lastReviewResult # Null

\* a verdict stored with the flag set, and the pull request let through
C39_Witness ==
    /\ reviewCompleted
    /\ lastReviewResult # Null
    /\ last.name = "create_pull_request"
    /\ last.kind = "success"

====
